---- MODULE Spec2Model ----
(***************************************************************************)
(* A model of the drone demo repository: the restricted Tello SDK          *)
(* (DJI_Tello/SDK/RestrictedTelloSDK.py), the hybrid speech bridge         *)
(* (hybrid_drone_agent.py), the command center's missions                  *)
(* (command_center.py), the drone controller and vision analyzer           *)
(* (drone_controller.py, vision_analyzer.py) and the realtime relay        *)
(* (web_drone_agent.py, autonomous_realtime_drone_agent.py), the command   *)
(* objects and their validator (src/drone/commands.py), the drone          *)
(* wrappers, TelloController (src/drone/tello_controller.py) and the web   *)
(* agent's video streaming.                                                *)
(* Each component has its own specification over its own variables.        *)
(***************************************************************************)
EXTENDS Integers, Sequences, FiniteSets, TLC

VARIABLES
    \* ---- RestrictedTelloSDK / RestrictionManager ----
    restrictions,        \* RestrictionManager.restrictions (the dict)
    command_count,       \* RestrictionManager.command_count
    last_reset_time,     \* RestrictionManager.last_reset_time, in ticks
    now,                 \* time.time(), in ticks
    tello_is_connected,  \* TelloSDK.is_connected
    lastCall,            \* the latest call on the SDK object and what it did
    recentSent,          \* datagrams sent to the drone in each of the last ticks
    sentInWindow,        \* datagrams sent since the counter was last reset
    \* ---- SpeechProcessor (hybrid speech bridge) ----
    is_connected,        \* SpeechProcessor.is_connected
    response_active,     \* SpeechProcessor.response_active
    pending_speech_queue,\* SpeechProcessor.pending_speech_queue, oldest first
    wire,                \* what the bridge has sent on the websocket, in order
    events,              \* server events on their way to the bridge, in order
    srvQueued,           \* response.create messages the server has not started
    srvActive,           \* the server is generating a response
    spoken,              \* transcripts the server has emitted so far
    lastHandled,         \* the event _process_speech_message handled last
    \* ---- DroneController, VisionAnalyzer, CommandCenter ----
    vision_only,         \* the agent's vision_only flag
    drone_state,         \* DroneState: is_flying, height, battery, movement_count
    hwCalls,             \* methods of the drone handle the latest operation called
    lastOp,              \* the latest operation and the branch it returned from
    mission_active,      \* CommandCenter.mission_active
    current_mission,     \* CommandCenter.current_mission
    missions,            \* the execute_mission tasks created so far
    \* ---- realtime relay (web and autonomous agents) ----
    relayKind,           \* which agent's _process_message runs: "web" or "autonomous"
    relayWire,           \* what has been sent to the realtime API, in order
    relayCalls,          \* function-call events handled so far
    lastRelay,           \* the function-call event handled last
    \* ---- DroneCommand and CommandValidator (src/drone/commands.py) ----
    built,               \* the latest DroneCommand(...) call: its input and outcome
    checked,             \* what is_safe_command and the dict round trip made of it
    commands,            \* the list handed to validate_command_sequence
    lint,                \* the warnings validate_command_sequence returned for it
    \* ---- the drone wrappers: TelloSDK, GarageDrone, SimpleTello ----
    garage,              \* GarageDrone: socket (created or None), is_connected
    simple,              \* SimpleTello: is_connected, video_enabled
    lastWrap,            \* the latest wrapper call, the vendor's answer, the result
    \* ---- TelloController (src/drone/tello_controller.py) ----
    controller,          \* the controller class the process built
    tc,                  \* TelloController: tello, is_connected, is_flying, battery_level
    droneBattery,        \* the battery level of the drone itself
    lastTc,              \* the latest call on the controller, its result and its calls
    \* ---- the web agent's video streaming (web_drone_agent.py) ----
    web_clients,         \* how many sids web_clients holds
    video_streaming,     \* WebEnabledDroneAgent.video_streaming
    video_streaming_enabled, \* WebEnabledDroneAgent.video_streaming_enabled
    workers              \* the _video_stream_worker tasks created and where each is

sdkVars == <<restrictions, command_count, last_reset_time, now,
             tello_is_connected, lastCall, recentSent, sentInWindow>>

speechVars == <<is_connected, response_active, pending_speech_queue, wire,
                events, srvQueued, srvActive, spoken, lastHandled>>

agentVars == <<vision_only, drone_state, hwCalls, lastOp>>

missionVars == <<mission_active, current_mission, missions>>

relayVars == <<relayKind, relayWire, relayCalls, lastRelay>>

commandVars == <<built, checked, commands, lint>>

wrapperVars == <<garage, simple, lastWrap>>

telloVars == <<controller, tc, droneBattery, lastTc>>

videoVars == <<web_clients, video_streaming, video_streaming_enabled, workers>>

vars == <<sdkVars, speechVars, agentVars, missionVars, relayVars, commandVars,
          wrapperVars, telloVars, videoVars>>

\* A step of one component leaves the other components alone.
SdkOnly ==
    UNCHANGED <<speechVars, agentVars, missionVars, relayVars, commandVars, wrapperVars,
                telloVars, videoVars>>

SpeechOnly ==
    UNCHANGED <<sdkVars, agentVars, missionVars, relayVars, commandVars, wrapperVars,
                telloVars, videoVars>>

AgentOnly ==
    UNCHANGED <<sdkVars, speechVars, missionVars, relayVars, commandVars, wrapperVars,
                telloVars, videoVars>>

CenterOnly ==
    UNCHANGED <<sdkVars, speechVars, relayVars, commandVars, wrapperVars,
                telloVars, videoVars>>

RelayOnly ==
    UNCHANGED <<sdkVars, speechVars, missionVars, commandVars, wrapperVars,
                telloVars, videoVars>>

CommandsOnly ==
    UNCHANGED <<sdkVars, speechVars, agentVars, missionVars, relayVars, wrapperVars,
                telloVars, videoVars>>

WrappersOnly ==
    UNCHANGED <<sdkVars, speechVars, agentVars, missionVars, relayVars, commandVars,
                telloVars, videoVars>>

TelloOnly ==
    UNCHANGED <<sdkVars, speechVars, agentVars, missionVars, relayVars, commandVars,
                wrapperVars, videoVars>>

VideoOnly ==
    UNCHANGED <<sdkVars, speechVars, agentVars, missionVars, relayVars, commandVars,
                wrapperVars, telloVars>>

(***************************************************************************)
(* Text.  A command is the text handed to send_command: a sequence of      *)
(* characters.  split(), startswith(), int() and the f-string formatting   *)
(* of a number are computed on the characters.                             *)
(***************************************************************************)
DigitChars == <<"0", "1", "2", "3", "4", "5", "6", "7", "8", "9">>

IsDigit(c) == \E i \in 1..10 : DigitChars[i] = c

DigitVal(c) == (CHOOSE i \in 1..10 : DigitChars[i] = c) - 1

RECURSIVE IntToStr(_)
IntToStr(n) ==
    IF n < 10 THEN <<DigitChars[n + 1]>>
    ELSE IntToStr(n \div 10) \o <<DigitChars[(n % 10) + 1]>>

RECURSIVE DigitsToInt(_)
DigitsToInt(s) ==
    IF s = <<>> THEN 0
    ELSE 10 * DigitsToInt(SubSeq(s, 1, Len(s) - 1)) + DigitVal(s[Len(s)])

\* int(token) succeeds on an optionally signed run of digits.
IntParses(tok) ==
    LET body == IF tok # <<>> /\ tok[1] \in {"-", "+"} THEN Tail(tok) ELSE tok
    IN  body # <<>> /\ \A i \in 1..Len(body) : IsDigit(body[i])

IntOf(tok) ==
    IF tok[1] = "-" THEN 0 - DigitsToInt(Tail(tok))
    ELSE IF tok[1] = "+" THEN DigitsToInt(Tail(tok))
    ELSE DigitsToInt(tok)

\* str.split(): the maximal runs of non-blank characters.
RECURSIVE SplitFrom(_, _, _)
SplitFrom(s, i, cur) ==
    IF i > Len(s) THEN (IF cur = <<>> THEN <<>> ELSE <<cur>>)
    ELSE IF s[i] = " "
         THEN (IF cur = <<>> THEN <<>> ELSE <<cur>>) \o SplitFrom(s, i + 1, <<>>)
         ELSE SplitFrom(s, i + 1, Append(cur, s[i]))

Split(s) == SplitFrom(s, 1, <<>>)

StartsWith(s, p) == Len(s) >= Len(p) /\ SubSeq(s, 1, Len(p)) = p

\* The verb of a command: its first whitespace-separated token.
Verb(command) == IF Split(command) = <<>> THEN <<>> ELSE Split(command)[1]

\* f"{verb} {n}"
WithArg(verb, n) == verb \o <<" ">> \o IntToStr(n)

W_takeoff   == <<"t", "a", "k", "e", "o", "f", "f">>
W_land      == <<"l", "a", "n", "d">>
W_forward   == <<"f", "o", "r", "w", "a", "r", "d">>
W_back      == <<"b", "a", "c", "k">>
W_left      == <<"l", "e", "f", "t">>
W_right     == <<"r", "i", "g", "h", "t">>
W_up        == <<"u", "p">>
W_down      == <<"d", "o", "w", "n">>
W_ccw       == <<"c", "c", "w">>
W_cw        == <<"c", "w">>
W_flip      == <<"f", "l", "i", "p">>
W_speed     == <<"s", "p", "e", "e", "d">>
W_batteryQ  == <<"b", "a", "t", "t", "e", "r", "y", "?">>
W_heightQ   == <<"h", "e", "i", "g", "h", "t", "?">>
W_speedQ    == <<"s", "p", "e", "e", "d", "?">>
W_tempQ     == <<"t", "e", "m", "p", "?">>
W_wifiQ     == <<"w", "i", "f", "i", "?">>
W_timeQ     == <<"t", "i", "m", "e", "?">>
W_command   == <<"c", "o", "m", "m", "a", "n", "d">>
W_emergency == <<"e", "m", "e", "r", "g", "e", "n", "c", "y">>

(***************************************************************************)
(* SpeechProcessor: the hybrid speech bridge.  _handle_realtime_messages   *)
(* handles one server event at a time; the transcription callback          *)
(* (_process_voice_command) is awaited inside it and calls speak_text, so  *)
(* every speak_text runs to its end before the next event is handled.      *)
(***************************************************************************)
\* Transcripts the user speaks in one session; the text spoken for the
\* n-th transcript is named n.
MaxTexts == 4

ItemCreate(text) == [type |-> "conversation.item.create", text |-> text]

ResponseCreate == [type |-> "response.create", text |-> 0]

Event(type, text) == [type |-> type, text |-> text]

\* _do_speak_text(text): the two messages it sends.
do_speak_text(text) == <<ItemCreate(text), ResponseCreate>>

\* speak_text(text): the queue and the messages sent afterwards.
speak_text(text) ==
    IF ~is_connected
    THEN [queue |-> pending_speech_queue, out |-> <<>>]
    ELSE IF response_active
    THEN [queue |-> Append(pending_speech_queue, text), out |-> <<>>]
    ELSE [queue |-> pending_speech_queue, out |-> do_speak_text(text)]

\* on_response_done with the flag left set.
on_response_done_keeps_flag ==
    IF pending_speech_queue # <<>>
    THEN [active |-> response_active, queue |-> Tail(pending_speech_queue),
          out |-> do_speak_text(Head(pending_speech_queue)),
          dequeued |-> Head(pending_speech_queue)]
    ELSE [active |-> response_active, queue |-> pending_speech_queue, out |-> <<>>,
          dequeued |-> 0]

\* The response.done branch of _process_speech_message.
on_response_done ==
    IF pending_speech_queue # <<>>
    THEN [active |-> FALSE, queue |-> Tail(pending_speech_queue),
          out |-> do_speak_text(Head(pending_speech_queue)),
          dequeued |-> Head(pending_speech_queue)]
    ELSE [active |-> FALSE, queue |-> pending_speech_queue, out |-> <<>>,
          dequeued |-> 0]

\* The server receives what the bridge sends: each response.create is a
\* generation request it will answer.
Requests(out) == Cardinality({i \in DOMAIN out : out[i].type = "response.create"})

Handles(type) ==
    /\ is_connected
    /\ events # <<>>
    /\ Head(events).type = type
    /\ events' = Tail(events)

\* conversation.item.input_audio_transcription.completed: the callback
\* speaks the command's result.
HandleTranscription ==
    /\ Handles("transcription.completed")
    /\ LET r == speak_text(Head(events).text)
       IN  /\ pending_speech_queue' = r.queue
           /\ wire' = wire \o r.out
           /\ srvQueued' = srvQueued + Requests(r.out)
    /\ lastHandled' = [type |-> "transcription.completed", dequeued |-> 0]
    /\ UNCHANGED <<is_connected, response_active, srvActive, spoken>>
    /\ SpeechOnly

HandleResponseCreated ==
    /\ Handles("response.created")
    /\ response_active' = TRUE
    /\ lastHandled' = [type |-> "response.created", dequeued |-> 0]
    /\ UNCHANGED <<is_connected, pending_speech_queue, wire, srvQueued, srvActive,
                   spoken>>
    /\ SpeechOnly

HandleResponseDone ==
    /\ Handles("response.done")
    /\ LET r == on_response_done
       IN  /\ response_active' = r.active
           /\ pending_speech_queue' = r.queue
           /\ wire' = wire \o r.out
           /\ srvQueued' = srvQueued + Requests(r.out)
           /\ lastHandled' = [type |-> "response.done", dequeued |-> r.dequeued]
    /\ UNCHANGED <<is_connected, srvActive, spoken>>
    /\ SpeechOnly

\* websockets.exceptions.ConnectionClosed ends the message loop.
ConnectionClosed ==
    /\ is_connected
    /\ is_connected' = FALSE
    /\ UNCHANGED <<response_active, pending_speech_queue, wire, events, srvQueued,
                   srvActive, spoken, lastHandled>>
    /\ SpeechOnly

\* The user says a command and the server transcribes it.
UserSpeaks ==
    /\ is_connected
    /\ spoken < MaxTexts
    /\ spoken' = spoken + 1
    /\ events' = Append(events, Event("transcription.completed", spoken + 1))
    /\ UNCHANGED <<is_connected, response_active, pending_speech_queue, wire,
                   srvQueued, srvActive, lastHandled>>
    /\ SpeechOnly

\* The server starts on the next generation request.
ServerCreated ==
    /\ is_connected
    /\ srvQueued > 0
    /\ ~srvActive
    /\ srvQueued' = srvQueued - 1
    /\ srvActive' = TRUE
    /\ events' = Append(events, Event("response.created", 0))
    /\ UNCHANGED <<is_connected, response_active, pending_speech_queue, wire,
                   spoken, lastHandled>>
    /\ SpeechOnly

\* The server finishes the response it is generating.
ServerDone ==
    /\ is_connected
    /\ srvActive
    /\ srvActive' = FALSE
    /\ events' = Append(events, Event("response.done", 0))
    /\ UNCHANGED <<is_connected, response_active, pending_speech_queue, wire,
                   srvQueued, spoken, lastHandled>>
    /\ SpeechOnly

\* The state once connect_realtime has returned True.
SpeechInit ==
    /\ is_connected = TRUE
    /\ response_active = FALSE
    /\ pending_speech_queue = <<>>
    /\ wire = <<>>
    /\ events = <<>>
    /\ srvQueued = 0
    /\ srvActive = FALSE
    /\ spoken = 0
    /\ lastHandled = [type |-> "none", dequeued |-> 0]

SpeechNext ==
    \/ HandleTranscription
    \/ HandleResponseCreated
    \/ HandleResponseDone
    \/ ConnectionClosed
    \/ UserSpeaks
    \/ ServerCreated
    \/ ServerDone

\* Generation requests sent and not yet answered by a response.done that
\* the bridge has handled.
Outstanding ==
    srvQueued + (IF srvActive THEN 1 ELSE 0)
    + Cardinality({i \in DOMAIN events : events[i].type = "response.done"})

\* The texts of the generation requests sent, in the order sent.
SentTexts == SelectSeq(wire, LAMBDA m : m.type = "conversation.item.create")

(***************************************************************************)
(* RestrictionManager and RestrictedTelloSDK.                              *)
(***************************************************************************)
\* Ticks of the model's clock in one second of time.time().
TicksPerSecond == 2

\* The last tick of the clock.
MaxTime == 3

\* The texts a caller hands to send_command directly.
CommandTexts ==
    { W_speedQ, W_command, W_emergency,
      WithArg(W_forward, 600), WithArg(W_speed, 150), WithArg(W_cw, 90) }

\* The arguments a caller hands to the movement methods.
Amounts == {5, 50}

\* What recvfrom yields after a datagram went out: the drone's answer, or
\* "timeout" for socket.timeout.
Replies == {"ok", "timeout"}

DefaultRestrictions ==
    [ max_speed |-> 100,
      max_distance |-> 500,
      command_limit_per_second |-> 10,
      allowed_commands |->
          << W_takeoff, W_land, W_forward, W_back, W_left, W_right,
             W_up, W_down, W_ccw, W_cw, W_flip, W_speed, W_batteryQ,
             W_heightQ, W_speedQ, W_tempQ, W_wifiQ, W_timeQ >>,
      emergency_stop_allowed |-> FALSE ]

\* The dicts the organisers hand to update_restrictions.
RestrictionUpdates ==
    { [emergency_stop_allowed |-> TRUE],
      [max_speed |-> 40, max_distance |-> 40, command_limit_per_second |-> 2,
       allowed_commands |-> <<W_takeoff, W_land, W_speed, W_speedQ>>] }

NoCall == [op |-> "none", command |-> <<>>, result |-> "none", sent |-> FALSE,
           ret |-> "none"]

\* An allow-list that lets every text through.
any_command_allowed(command) == TRUE

\* command in self.restrictions["allowed_commands"]: the whole text is
\* compared with each entry of the list.
is_command_allowed(command) ==
    \E i \in DOMAIN restrictions.allowed_commands :
        restrictions.allowed_commands[i] = command

check_speed_limit(speed) == speed <= restrictions.max_speed

check_distance_limit(distance) == distance <= restrictions.max_distance

\* A rate check that refuses one command too late (> for >=).
check_command_rate_late ==
    LET reset  == now - last_reset_time > TicksPerSecond
        count0 == IF reset THEN 0 ELSE command_count
        over   == count0 > restrictions.command_limit_per_second
    IN  [ ok |-> ~over,
          reset |-> reset,
          command_count |-> IF over THEN count0 ELSE count0 + 1,
          last_reset_time |-> IF reset THEN now ELSE last_reset_time ]

\* check_command_rate: the counter and the reset time it leaves, and its answer.
check_command_rate ==
    LET reset  == now - last_reset_time > TicksPerSecond
        count0 == IF reset THEN 0 ELSE command_count
        over   == count0 >= restrictions.command_limit_per_second
    IN  [ ok |-> ~over,
          reset |-> reset,
          command_count |-> IF over THEN count0 ELSE count0 + 1,
          last_reset_time |-> IF reset THEN now ELSE last_reset_time ]

\* The parameter checks of send_command: int(command.split()[1]) inside a
\* try whose except passes.
ParamError(command) ==
    LET toks   == Split(command)
        hasInt == Len(toks) >= 2 /\ IntParses(toks[2])
    IN  IF StartsWith(command, W_speed)
        THEN IF hasInt /\ ~check_speed_limit(IntOf(toks[2]))
             THEN "error: speed exceeds maximum limit" ELSE "none"
        ELSE IF \/ StartsWith(command, W_forward) \/ StartsWith(command, W_back)
                \/ StartsWith(command, W_left) \/ StartsWith(command, W_right)
                \/ StartsWith(command, W_up) \/ StartsWith(command, W_down)
             THEN IF hasInt /\ ~check_distance_limit(IntOf(toks[2]))
                  THEN "error: distance exceeds maximum limit" ELSE "none"
             ELSE "none"

\* RestrictedTelloSDK.send_command(command), the drone answering `reply` if
\* the datagram goes out: the string returned, whether a datagram was sent,
\* and the rate counter afterwards.
RestrictedSend(command, reply) ==
    LET rate == check_command_rate
        same == [ reset |-> FALSE, command_count |-> command_count,
                  last_reset_time |-> last_reset_time ]
    IN  IF ~is_command_allowed(command)
        THEN [result |-> "error: command not allowed", sent |-> FALSE, rate |-> same]
        ELSE IF ~rate.ok
        THEN [result |-> "error: command rate limit exceeded", sent |-> FALSE,
              rate |-> rate]
        ELSE IF ParamError(command) # "none"
        THEN [result |-> ParamError(command), sent |-> FALSE, rate |-> rate]
        ELSE [result |-> reply, sent |-> TRUE, rate |-> rate]

\* The state after a call that went through send_command.
AfterSend(op, command, out, ret) ==
    /\ command_count' = out.rate.command_count
    /\ last_reset_time' = out.rate.last_reset_time
    /\ lastCall' = [op |-> op, command |-> command, result |-> out.result,
                    sent |-> out.sent, ret |-> ret]
    /\ recentSent' = IF out.sent THEN [recentSent EXCEPT ![1] = @ + 1] ELSE recentSent
    /\ sentInWindow' = (IF out.rate.reset THEN 0 ELSE sentInWindow)
                       + (IF out.sent THEN 1 ELSE 0)

\* The state after a call that raised before reaching send_command.
AfterRaise(op) ==
    /\ lastCall' = [op |-> op, command |-> <<>>, result |-> "none", sent |-> FALSE,
                    ret |-> "ValueError"]
    /\ UNCHANGED <<command_count, last_reset_time, recentSent, sentInWindow>>

\* sdk.send_command(text)
SendCommand(command, reply) ==
    LET out == RestrictedSend(command, reply)
    IN  /\ AfterSend("send_command", command, out, out.result)
        /\ UNCHANGED <<restrictions, now, tello_is_connected>>
        /\ SdkOnly

\* The bounds each movement method checks before it builds its command.
MoveRange(verb) ==
    IF verb \in {W_up, W_down} THEN [lo |-> 20, hi |-> 50]
    ELSE IF verb \in {W_cw, W_ccw} THEN [lo |-> 1, hi |-> 360]
    ELSE [lo |-> 10, hi |-> 100]

\* forward, back, left, right, up, down, rotate_left, rotate_right, set_speed
MoveVerbs == {W_forward, W_back, W_left, W_right, W_up, W_down, W_ccw, W_cw, W_speed}

Move(verb, n, reply) ==
    /\ IF MoveRange(verb).lo <= n /\ n <= MoveRange(verb).hi
       THEN LET out == RestrictedSend(WithArg(verb, n), reply)
            IN  AfterSend("move", WithArg(verb, n), out, out.result)
       ELSE AfterRaise("move")
    /\ UNCHANGED <<restrictions, now, tello_is_connected>>
    /\ SdkOnly

\* takeoff(), land()
Simple(verb, reply) ==
    LET out == RestrictedSend(verb, reply)
    IN  /\ AfterSend("simple", verb, out, out.result)
        /\ UNCHANGED <<restrictions, now, tello_is_connected>>
        /\ SdkOnly

\* TelloSDK.connect(), whose send_command is the restricted one.
Connect(reply) ==
    LET out == RestrictedSend(W_command, reply)
        ok  == out.result = "ok"
    IN  /\ AfterSend("connect", W_command, out, IF ok THEN "True" ELSE "False")
        /\ tello_is_connected' = (tello_is_connected \/ ok)
        /\ UNCHANGED <<restrictions, now>>
        /\ SdkOnly

\* RestrictedTelloSDK.emergency_stop()
EmergencyStop(reply) ==
    /\ IF ~restrictions.emergency_stop_allowed
       THEN /\ lastCall' = [op |-> "emergency_stop", command |-> <<>>,
                            result |-> "none", sent |-> FALSE,
                            ret |-> "error: emergency stop not allowed"]
            /\ UNCHANGED <<command_count, last_reset_time, recentSent, sentInWindow>>
       ELSE LET out == RestrictedSend(W_emergency, reply)
            IN  AfterSend("emergency_stop", W_emergency, out, out.result)
    /\ UNCHANGED <<restrictions, now, tello_is_connected>>
    /\ SdkOnly

\* dict.update(new_restrictions)
UpdateRestrictions(new) ==
    /\ restrictions' = [k \in DOMAIN restrictions |->
                           IF k \in DOMAIN new THEN new[k] ELSE restrictions[k]]
    /\ lastCall' = [NoCall EXCEPT !.op = "update_restrictions"]
    /\ UNCHANGED <<command_count, last_reset_time, now, tello_is_connected,
                   recentSent, sentInWindow>>
    /\ SdkOnly

\* The clock advances by one tick.
Tick ==
    /\ now < MaxTime
    /\ now' = now + 1
    /\ recentSent' = <<0>> \o SubSeq(recentSent, 1, TicksPerSecond - 1)
    /\ UNCHANGED <<restrictions, command_count, last_reset_time,
                   tello_is_connected, lastCall, sentInWindow>>
    /\ SdkOnly

SdkInit ==
    /\ restrictions = DefaultRestrictions
    /\ command_count = 0
    /\ last_reset_time = 0
    /\ now = 0
    /\ tello_is_connected = FALSE
    /\ lastCall = NoCall
    /\ recentSent = [i \in 1..TicksPerSecond |-> 0]
    /\ sentInWindow = 0

SdkNext ==
    \/ \E c \in CommandTexts, r \in Replies : SendCommand(c, r)
    \/ \E v \in MoveVerbs, n \in Amounts, r \in Replies : Move(v, n, r)
    \/ \E v \in {W_takeoff, W_land}, r \in Replies : Simple(v, r)
    \/ \E r \in Replies : Connect(r)
    \/ \E r \in Replies : EmergencyStop(r)
    \/ \E new \in RestrictionUpdates : UpdateRestrictions(new)
    \/ Tick

(***************************************************************************)
(* DroneController, VisionAnalyzer and the command center's commands.      *)
(* The drone handle is the hardware: each call on it is recorded in        *)
(* hwCalls, and what it answers is an input of the operation.              *)
(***************************************************************************)
\* The largest height and movement count the model follows.
MaxHeight == 160

MaxMoves == 3

\* What get_height and get_battery of the drone handle may answer.
HwHeights == {0, 80}

HwBatteries == {0, 55}

\* What one operation's calls on the drone handle answer: the command
\* succeeds, reports failure or raises; then the two readings.
HwAnswers == [ok : {"True", "False", "raise"}, height : HwHeights,
              battery : HwBatteries]

\* The distances and angles callers pass.
Distances == {-50, 30}

InitialDroneState ==
    [is_flying |-> FALSE, battery |-> 100, height |-> 0, movement_count |-> 0]

Outcome(state, calls, ret) == [state |-> state, calls |-> calls, ret |-> ret]

\* An operation that refuses or simulates: no call on the drone handle.
NoHw(state, ret) == Outcome(state, <<>>, ret)

\* try: success = self.drone.<method>(...); the readings taken on success.
HwCommand(state, method, hw, reads, okState) ==
    IF hw.ok = "True" THEN Outcome(okState, <<method>> \o reads, "ok")
    ELSE IF hw.ok = "False" THEN Outcome(state, <<method>>, "failed")
    ELSE Outcome(state, <<method>>, "error")

\* A takeoff that does not look at vision_only.
takeoff_on_hardware(hw) ==
    IF drone_state.is_flying THEN NoHw(drone_state, "already flying")
    ELSE HwCommand(drone_state, "takeoff", hw, <<"get_height", "get_battery">>,
                   [drone_state EXCEPT !.is_flying = TRUE, !.height = hw.height,
                                       !.battery = hw.battery])

takeoff(hw) ==
    IF drone_state.is_flying THEN NoHw(drone_state, "already flying")
    ELSE IF vision_only
    THEN NoHw([drone_state EXCEPT !.is_flying = TRUE, !.height = 80], "ok")
    ELSE HwCommand(drone_state, "takeoff", hw, <<"get_height", "get_battery">>,
                   [drone_state EXCEPT !.is_flying = TRUE, !.height = hw.height,
                                       !.battery = hw.battery])

land(hw) ==
    IF ~drone_state.is_flying THEN NoHw(drone_state, "already on the ground")
    ELSE IF vision_only
    THEN NoHw([drone_state EXCEPT !.is_flying = FALSE, !.height = 0], "ok")
    ELSE HwCommand(drone_state, "land", hw, <<>>,
                   [drone_state EXCEPT !.is_flying = FALSE, !.height = 0])

\* move_forward, curve_xyz_speed, go_xyz_speed: count the movement, then on
\* success read height and battery back.
TrackedMoves == {"move_forward", "curve_xyz_speed", "go_xyz_speed"}

move_tracked(method, hw) ==
    LET counted == [drone_state EXCEPT !.movement_count = @ + 1]
    IN  IF ~drone_state.is_flying THEN NoHw(drone_state, "not flying")
        ELSE IF vision_only THEN NoHw(counted, "ok")
        ELSE HwCommand(counted, method, hw, <<"get_height", "get_battery">>,
                       [counted EXCEPT !.height = hw.height,
                                       !.battery = hw.battery])

\* move_backward, move_left, move_right and the arc and curve movements:
\* count the movement and report.
PlainMoves == {"move_back", "move_left", "move_right", "curve_right_arc",
               "curve_left_arc", "curve_forward_right", "curve_forward_left"}

move_plain(method, hw) ==
    LET counted == [drone_state EXCEPT !.movement_count = @ + 1]
    IN  IF ~drone_state.is_flying THEN NoHw(drone_state, "not flying")
        ELSE IF vision_only THEN NoHw(counted, "ok")
        ELSE HwCommand(counted, method, hw, <<>>, counted)

move_up(distance, hw) ==
    LET counted == [drone_state EXCEPT !.movement_count = @ + 1]
    IN  IF ~drone_state.is_flying THEN NoHw(drone_state, "not flying")
        ELSE IF vision_only
        THEN NoHw([counted EXCEPT !.height = @ + distance], "ok")
        ELSE HwCommand(counted, "move_up", hw, <<"get_height">>,
                       [counted EXCEPT !.height = hw.height])

Max(a, b) == IF a >= b THEN a ELSE b

move_down(distance, hw) ==
    LET counted == [drone_state EXCEPT !.movement_count = @ + 1]
    IN  IF ~drone_state.is_flying THEN NoHw(drone_state, "not flying")
        ELSE IF vision_only
        THEN NoHw([counted EXCEPT !.height = Max(0, @ - distance)], "ok")
        ELSE HwCommand(counted, "move_down", hw, <<"get_height">>,
                       [counted EXCEPT !.height = hw.height])

Rotations == {"rotate_clockwise", "rotate_counter_clockwise"}

rotate(method, hw) ==
    IF ~drone_state.is_flying THEN NoHw(drone_state, "not flying")
    ELSE IF vision_only THEN NoHw(drone_state, "ok")
    ELSE HwCommand(drone_state, method, hw, <<>>, drone_state)

\* get_drone_status: the readings are taken inside a try whose except
\* passes, battery first.
get_drone_status(hw) ==
    IF vision_only THEN NoHw(drone_state, "status")
    ELSE IF hw.ok = "True"
    THEN Outcome([drone_state EXCEPT !.battery = hw.battery, !.height = hw.height],
                 <<"get_battery", "get_height">>, "status")
    ELSE IF hw.ok = "False"
    THEN Outcome([drone_state EXCEPT !.battery = hw.battery],
                 <<"get_battery", "get_height">>, "status")
    ELSE Outcome(drone_state, <<"get_battery">>, "status")

emergency_stop(hw) ==
    IF vision_only THEN NoHw(drone_state, "ok")
    ELSE HwCommand(drone_state, "emergency", hw, <<>>, drone_state)

\* VisionAnalyzer.capture_and_analyze_image: up to max_retries calls of
\* drone.get_frame(), each answering a frame, None or an exception.
max_retries == 3

FrameAnswers == {"frame", "none", "raise"}

\* The attempts made: up to and including the first that yields a frame.
RECURSIVE Attempts(_, _)
Attempts(answers, k) ==
    IF k > max_retries THEN <<>>
    ELSE IF answers[k] = "frame" THEN <<"get_frame">>
    ELSE <<"get_frame">> \o Attempts(answers, k + 1)

GotFrame(answers) == \E k \in 1..max_retries : answers[k] = "frame"

capture_and_analyze_image(answers) ==
    IF vision_only THEN NoHw(drone_state, "simulation")
    ELSE Outcome(drone_state, Attempts(answers, 1),
                 IF GotFrame(answers) THEN "analysis" ELSE "no frame")

\* CommandCenter.execute_drone_command(command, distance)
CenterCommands ==
    {"takeoff", "land", "move_forward", "move_backward", "move_left", "move_right",
     "move_up", "move_down", "rotate_left", "rotate_right", "hover"}

\* The method of the drone handle each command of the command center calls.
CenterMethod(command) ==
    CASE command = "move_backward" -> "move_back"
      [] command = "rotate_left" -> "rotate_counter_clockwise"
      [] command = "rotate_right" -> "rotate_clockwise"
      [] OTHER -> command

IsMove(command) ==
    command \in {"move_forward", "move_backward", "move_left", "move_right",
                 "move_up", "move_down"}

execute_drone_command(command, hw) ==
    IF vision_only
    THEN IF command = "takeoff"
         THEN NoHw([drone_state EXCEPT !.is_flying = TRUE, !.height = 50], "simulated")
         ELSE IF command = "land"
         THEN NoHw([drone_state EXCEPT !.is_flying = FALSE, !.height = 0], "simulated")
         ELSE IF IsMove(command)
         THEN NoHw([drone_state EXCEPT !.movement_count = @ + 1], "simulated")
         ELSE NoHw(drone_state, "simulated")
    ELSE IF command = "takeoff"
         THEN HwCommand(drone_state, "takeoff", hw, <<>>,
                        [drone_state EXCEPT !.is_flying = TRUE])
         ELSE IF command = "land"
         THEN HwCommand(drone_state, "land", hw, <<>>,
                        [drone_state EXCEPT !.is_flying = FALSE])
         ELSE IF command = "hover" THEN NoHw(drone_state, "unknown command")
         ELSE HwCommand(drone_state, CenterMethod(command), hw, <<>>, drone_state)

\* An operation acts: the flight state, the calls it made and its result.
Acts(name, r) ==
    /\ controller = "DroneController"
    /\ r.state.movement_count <= MaxMoves
    /\ r.state.height <= MaxHeight
    /\ r.state.height >= 0 - MaxHeight
    /\ drone_state' = r.state
    /\ hwCalls' = r.calls
    /\ lastOp' = [name |-> name, ret |-> r.ret]
    /\ UNCHANGED vision_only

Takeoff == \E hw \in HwAnswers : Acts("takeoff", takeoff(hw)) /\ AgentOnly

Land == \E hw \in HwAnswers : Acts("land", land(hw)) /\ AgentOnly

MoveTracked ==
    \E m \in TrackedMoves, hw \in HwAnswers : Acts(m, move_tracked(m, hw)) /\ AgentOnly

MovePlain ==
    \E m \in PlainMoves, hw \in HwAnswers : Acts(m, move_plain(m, hw)) /\ AgentOnly

MoveUp ==
    \E d \in Distances, hw \in HwAnswers : Acts("move_up", move_up(d, hw)) /\ AgentOnly

MoveDown ==
    \E d \in Distances, hw \in HwAnswers :
        Acts("move_down", move_down(d, hw)) /\ AgentOnly

Rotate ==
    \E m \in Rotations, hw \in HwAnswers : Acts(m, rotate(m, hw)) /\ AgentOnly

GetDroneStatus ==
    \E hw \in HwAnswers : Acts("get_drone_status", get_drone_status(hw)) /\ AgentOnly

ControllerEmergencyStop ==
    \E hw \in HwAnswers : Acts("emergency_stop", emergency_stop(hw)) /\ AgentOnly

CaptureImage ==
    \E a \in [1..max_retries -> FrameAnswers] :
        Acts("capture_and_analyze_image", capture_and_analyze_image(a)) /\ AgentOnly

\* handle_manual_command
ManualCommand ==
    \E c \in CenterCommands, hw \in HwAnswers :
        Acts(c, execute_drone_command(c, hw)) /\ AgentOnly

\* The agent is built in either mode.
AgentInit ==
    /\ vision_only \in BOOLEAN
    /\ drone_state = InitialDroneState
    /\ hwCalls = <<>>
    /\ lastOp = [name |-> "none", ret |-> "none"]

AgentNext ==
    \/ Takeoff
    \/ Land
    \/ MoveTracked
    \/ MovePlain
    \/ MoveUp
    \/ MoveDown
    \/ Rotate
    \/ GetDroneStatus
    \/ ControllerEmergencyStop
    \/ CaptureImage
    \/ ManualCommand

(***************************************************************************)
(* The command center's missions.  handle_start_mission creates one        *)
(* execute_mission task per start_mission message; a task runs between     *)
(* its awaits, and client messages are handled between the tasks' steps.   *)
(***************************************************************************)
\* start_mission messages in one session.
MaxMissions == 2

MissionTypes == {"patrol", "circle", "square", "survey"}

\* Iterations of each mission's loop; a mission type execute_mission does
\* not know has none.
Iterations(type) ==
    CASE type = "patrol" -> 4
      [] type = "circle" -> 8
      [] type = "square" -> 4
      [] OTHER -> 0

patrol_moves == <<"move_forward", "move_right", "move_backward", "move_left">>

\* The first and second command of iteration i (counted from 0).
FirstCommand(type, i) == IF type = "patrol" THEN patrol_moves[i + 1] ELSE "move_forward"

HasSecond(type) == type \in {"circle", "square"}

NewMission(type) ==
    [type |-> type, i |-> 0, cancelled |-> FALSE,
     pc |-> IF type \in {"patrol", "circle", "square"} THEN "begin" ELSE "done"]

\* mission_active was set to False: every task still running is cancelled.
Cancel(ms) ==
    [m \in DOMAIN ms |-> IF ms[m].pc # "done"
                         THEN [ms[m] EXCEPT !.cancelled = TRUE] ELSE ms[m]]

\* handle_start_mission
StartMission(type) ==
    /\ Len(missions) < MaxMissions
    /\ current_mission' = type
    /\ mission_active' = TRUE
    /\ missions' = Append(missions, NewMission(type))
    /\ lastOp' = [name |-> "start_mission", ret |-> "none"]
    /\ UNCHANGED <<vision_only, drone_state, hwCalls>>
    /\ CenterOnly

\* handle_pause_mission
PauseMission ==
    /\ mission_active' = FALSE
    /\ missions' = Cancel(missions)
    /\ lastOp' = [name |-> "pause_mission", ret |-> "none"]
    /\ UNCHANGED <<vision_only, drone_state, hwCalls, current_mission>>
    /\ CenterOnly

\* handle_emergency_stop: drone.emergency() when not in vision-only mode; an
\* exception of it skips the two assignments.
HandleEmergencyStop(ok) ==
    /\ hwCalls' = IF vision_only THEN <<>> ELSE <<"emergency">>
    /\ IF vision_only \/ ok
       THEN /\ drone_state' = [drone_state EXCEPT !.is_flying = FALSE]
            /\ mission_active' = FALSE
            /\ missions' = Cancel(missions)
            /\ lastOp' = [name |-> "emergency_stop", ret |-> "ok"]
       ELSE /\ lastOp' = [name |-> "emergency_stop", ret |-> "error"]
            /\ UNCHANGED <<drone_state, mission_active, missions>>
    /\ UNCHANGED <<vision_only, current_mission>>
    /\ CenterOnly

\* A mission task issues a command through execute_drone_command.
Issues(m, command, hw) ==
    LET r == execute_drone_command(command, hw)
    IN  /\ drone_state' = r.state
        /\ hwCalls' = r.calls
        /\ lastOp' = [name |-> command, ret |-> r.ret]

Goes(m, pc) == missions' = [missions EXCEPT ![m].pc = pc]

Quiet == UNCHANGED <<drone_state, hwCalls, lastOp>>

\* The "Executing ..." broadcast is awaited, then the loop starts.
MissionBegin(m) ==
    /\ missions[m].pc = "begin"
    /\ Goes(m, "check")
    /\ Quiet
    /\ UNCHANGED <<vision_only, mission_active, current_mission>>
    /\ CenterOnly

\* The head of the loop: `if not self.mission_active: break`, then the first
\* command.  In vision-only mode execute_drone_command sleeps before it
\* acts; otherwise the drone is called at once.
MissionCheck(m, hw) ==
    /\ missions[m].pc = "check"
    /\ IF missions[m].i >= Iterations(missions[m].type) \/ ~mission_active
       THEN Goes(m, "finish") /\ Quiet
       ELSE IF vision_only
       THEN Goes(m, "first") /\ Quiet
       ELSE /\ Goes(m, "mid")
            /\ Issues(m, FirstCommand(missions[m].type, missions[m].i), hw)
    /\ UNCHANGED <<vision_only, mission_active, current_mission>>
    /\ CenterOnly

\* The simulated first command acts after its sleep.
MissionFirst(m, hw) ==
    /\ missions[m].pc = "first"
    /\ Goes(m, "mid")
    /\ Issues(m, FirstCommand(missions[m].type, missions[m].i), hw)
    /\ UNCHANGED <<vision_only, mission_active, current_mission>>
    /\ CenterOnly

\* After the sleep that follows the first command: the second command of a
\* circle or square segment.
MissionMid(m, hw) ==
    /\ missions[m].pc = "mid"
    /\ IF ~HasSecond(missions[m].type)
       THEN Goes(m, "iterend") /\ Quiet
       ELSE IF vision_only
       THEN Goes(m, "second") /\ Quiet
       ELSE Goes(m, "iterend") /\ Issues(m, "rotate_right", hw)
    /\ UNCHANGED <<vision_only, mission_active, current_mission>>
    /\ CenterOnly

MissionSecond(m, hw) ==
    /\ missions[m].pc = "second"
    /\ Goes(m, "iterend")
    /\ Issues(m, "rotate_right", hw)
    /\ UNCHANGED <<vision_only, mission_active, current_mission>>
    /\ CenterOnly

\* The "... completed" broadcast of the iteration; the loop goes round.
MissionIterEnd(m) ==
    /\ missions[m].pc = "iterend"
    /\ missions' = [missions EXCEPT ![m].pc = "check", ![m].i = @ + 1]
    /\ Quiet
    /\ UNCHANGED <<vision_only, mission_active, current_mission>>
    /\ CenterOnly

\* After the loop: the "mission completed" broadcast, then
\* self.mission_active = False.
MissionFinish(m) ==
    /\ missions[m].pc = "finish"
    /\ Goes(m, "done")
    /\ mission_active' = FALSE
    /\ Quiet
    /\ UNCHANGED <<vision_only, current_mission>>
    /\ CenterOnly

MissionInit ==
    /\ mission_active = FALSE
    /\ current_mission = "none"
    /\ missions = <<>>

\* What the drone handle answers a mission's command.
MissionAnswers == {hw \in HwAnswers : hw.height = 0 /\ hw.battery = 0}

MissionNext ==
    \/ \E t \in MissionTypes : StartMission(t)
    \/ PauseMission
    \/ \E ok \in BOOLEAN : HandleEmergencyStop(ok)
    \/ \E m \in DOMAIN missions : MissionBegin(m)
    \/ \E m \in DOMAIN missions, hw \in MissionAnswers : MissionCheck(m, hw)
    \/ \E m \in DOMAIN missions, hw \in MissionAnswers : MissionFirst(m, hw)
    \/ \E m \in DOMAIN missions, hw \in MissionAnswers : MissionMid(m, hw)
    \/ \E m \in DOMAIN missions, hw \in MissionAnswers : MissionSecond(m, hw)
    \/ \E m \in DOMAIN missions : MissionIterEnd(m)
    \/ \E m \in DOMAIN missions : MissionFinish(m)

(***************************************************************************)
(* The realtime relay: the response.function_call_arguments.done branch    *)
(* of _process_message in the web and the autonomous agent.  The message   *)
(* loop handles one event at a time.                                       *)
(***************************************************************************)
\* Function-call events in one session; the n-th carries call_id n.
MaxCalls == 3

\* Names the model asks for: registered functions and one that is not.
RegisteredFunctions == {"takeoff", "land", "get_drone_status",
                        "capture_and_analyze_image"}

CalledNames == RegisteredFunctions \cup {"self_destruct"}

\* The arguments string: a JSON object the function accepts, a JSON value
\* the function rejects (func(**arguments) raises), or no JSON at all
\* (json.loads raises).
ArgumentKinds == {"valid", "rejected", "malformed"}

Message(type, call_id, from) == [type |-> type, call_id |-> call_id, from |-> from]

\* _analyze_image_with_gpt4o with the websocket set: the image item and the
\* analyzer's own response.create.
AnalyzerMessages(call_id) ==
    << Message("conversation.item.create", call_id, "analyzer"),
       Message("response.create", call_id, "analyzer") >>

\* How _analyze_image_with_gpt4o goes: both messages are sent, the
\* websocket is not set, or one of its two sends raises.
AnalyzerOutcomes == {"sent", "no websocket", "item fails", "response fails"}

\* _analyze_image_with_gpt4o: what it sent and the text it returns.
analyze_image_with_gpt4o(call_id, outcome) ==
    CASE outcome = "sent" ->
           [sent |-> AnalyzerMessages(call_id), result |-> "[PROCESSING]"]
      [] outcome = "no websocket" ->
           [sent |-> <<>>, result |-> "WebSocket connection not available"]
      [] outcome = "item fails" ->
           [sent |-> <<>>, result |-> "Failed to analyze image"]
      [] outcome = "response fails" ->
           [sent |-> SubSeq(AnalyzerMessages(call_id), 1, 1),
            result |-> "Failed to analyze image"]

\* The registered function runs: the flight state and hardware calls it
\* leaves, what it sent itself, and the text it returns.
Dispatch(name, call_id, hw, frames, outcome) ==
    LET r == CASE name = "takeoff" -> takeoff(hw)
               [] name = "land" -> land(hw)
               [] name = "get_drone_status" -> get_drone_status(hw)
               [] OTHER -> capture_and_analyze_image(frames)
        a == analyze_image_with_gpt4o(call_id, outcome)
    IN  IF r.ret = "analysis"
        THEN [state |-> r.state, calls |-> r.calls, sent |-> a.sent,
              result |-> a.result]
        ELSE [state |-> r.state, calls |-> r.calls, sent |-> <<>>, result |-> r.ret]

\* _execute_function(function_name, arguments)
execute_function(name, args, call_id, hw, frames, outcome) ==
    IF name \notin RegisteredFunctions
    THEN [state |-> drone_state, calls |-> <<>>, sent |-> <<>>,
          result |-> "Unknown function"]
    ELSE IF args = "rejected"
    THEN [state |-> drone_state, calls |-> <<>>, sent |-> <<>>,
          result |-> "Function failed"]
    ELSE Dispatch(name, call_id, hw, frames, outcome)

\* A relay that asks for a response after every function.
AfterFunctionAlways(result, call_id) ==
    << Message("function_call_output", call_id, "relay") >>
    \o (IF relayKind = "autonomous"
        THEN << Message("conversation.item.create", call_id, "relay") >>
        ELSE <<>>)
    \o << Message("response.create", call_id, "relay") >>

\* What the relay sends after the function returned `result`.
AfterFunction(result, call_id) ==
    << Message("function_call_output", call_id, "relay") >>
    \o (IF result = "[PROCESSING]" THEN <<>>
        ELSE (IF relayKind = "autonomous"
              THEN << Message("conversation.item.create", call_id, "relay") >>
              ELSE <<>>)
             \o << Message("response.create", call_id, "relay") >>)

\* The response.function_call_arguments.done branch: json.loads, the
\* function, the output, the continuation; an exception ends it.
process_function_call(name, args, call_id, hw, frames, outcome) ==
    IF args = "malformed"
    THEN [state |-> drone_state, calls |-> <<>>, sent |-> <<>>, dispatched |-> FALSE,
          result |-> "none"]
    ELSE LET f == execute_function(name, args, call_id, hw, frames, outcome)
         IN  [state |-> f.state, calls |-> f.calls,
              sent |-> f.sent \o AfterFunction(f.result, call_id),
              dispatched |-> TRUE, result |-> f.result]

FunctionCall(name, args, hw, frames, outcome) ==
    LET id == relayCalls + 1
        r  == process_function_call(name, args, id, hw, frames, outcome)
    IN  /\ relayCalls < MaxCalls
        /\ relayCalls' = id
        /\ relayWire' = relayWire \o r.sent
        /\ lastRelay' = [call_id |-> id, name |-> name, args |-> args,
                         dispatched |-> r.dispatched, result |-> r.result]
        /\ drone_state' = r.state
        /\ hwCalls' = r.calls
        /\ lastOp' = [name |-> name, ret |-> r.result]
        /\ UNCHANGED <<vision_only, relayKind>>
        /\ RelayOnly

\* What the drone handle and the camera answer a relayed call.
RelayAnswers == {hw \in HwAnswers : hw.height = 80 /\ hw.battery = 55}

RelayFrames ==
    {a \in [1..max_retries -> FrameAnswers] : a[2] = "none" /\ a[3] = "none"}

RelayNext ==
    \E n \in CalledNames, a \in ArgumentKinds, hw \in RelayAnswers, fr \in RelayFrames,
       o \in AnalyzerOutcomes :
        FunctionCall(n, a, hw, fr, o)

\* Messages of one type sent for one call.
Sent(type, call_id) ==
    Cardinality({i \in DOMAIN relayWire :
                    relayWire[i].type = type /\ relayWire[i].call_id = call_id})

(***************************************************************************)
(* DroneCommand and CommandValidator (src/drone/commands.py).  A number    *)
(* is counted in tenths, so that int() is computed (it drops the           *)
(* fraction) and not assumed.  A parameter that may be missing from the    *)
(* dict is <<>> when missing and <<v>> when present; the direction "none"  *)
(* is the missing key, which .get() answers with None.                     *)
(***************************************************************************)
\* Commands in one list handed to validate_command_sequence.
MaxCommands == 3

\* The number n, in tenths.
Num(n) == n * 10

\* int(t): the fraction is dropped, towards zero.
int(t) == IF t >= 0 THEN (t \div 10) * 10 ELSE 0 - (((0 - t) \div 10) * 10)

\* dict.get(key, default)
Get(value, default) == IF value = <<>> THEN default ELSE value[1]

\* class DroneAction(Enum): the members and their values.
DroneAction ==
    [ TAKEOFF |-> "takeoff", LAND |-> "land", MOVE |-> "move", ROTATE |-> "rotate",
      HOVER |-> "hover", SCAN |-> "scan", EMERGENCY |-> "emergency" ]

\* parameters=None, or {}
NoParameters == [direction |-> "none", distance |-> <<>>, angle |-> <<>>,
                 duration |-> <<>>]

valid_directions == {"forward", "back", "left", "right", "up", "down"}

Raises(parameters) == [raised |-> "ValueError", parameters |-> parameters]

Passes(parameters) == [raised |-> "none", parameters |-> parameters]

\* A range check of the move command that leaves out its two ends.
validate_move_command_open(parameters) ==
    LET distance == Get(parameters.distance, Num(100))
    IN  IF parameters.direction \notin valid_directions THEN Raises(parameters)
        ELSE IF ~(Num(20) < distance /\ distance < Num(500)) THEN Raises(parameters)
        ELSE Passes([parameters EXCEPT !.distance = <<int(distance)>>])

validate_move_command(parameters) ==
    LET distance == Get(parameters.distance, Num(100))
    IN  IF parameters.direction \notin valid_directions THEN Raises(parameters)
        ELSE IF ~(Num(20) <= distance /\ distance <= Num(500)) THEN Raises(parameters)
        ELSE Passes([parameters EXCEPT !.distance = <<int(distance)>>])

validate_rotate_command(parameters) ==
    LET angle == Get(parameters.angle, Num(90))
    IN  IF ~(Num(-360) <= angle /\ angle <= Num(360)) THEN Raises(parameters)
        ELSE Passes([parameters EXCEPT !.angle = <<int(angle)>>])

validate_scan_command(parameters) ==
    LET duration == Get(parameters.duration, Num(5))
    IN  IF ~(Num(1) <= duration /\ duration <= Num(30)) THEN Raises(parameters)
        ELSE Passes([parameters EXCEPT !.duration = <<int(duration)>>])

\* DroneCommand.validate
validate(action, parameters) ==
    CASE action = "MOVE" -> validate_move_command(parameters)
      [] action = "ROTATE" -> validate_rotate_command(parameters)
      [] action = "SCAN" -> validate_scan_command(parameters)
      [] OTHER -> Passes(parameters)

\* DroneCommand(action, parameters, description, safety_check): the object,
\* or the exception its validate() raised.
DroneCommand(action, parameters, description, safety_check) ==
    LET v == validate(action, parameters)
    IN  [raised |-> v.raised, action |-> action, parameters |-> v.parameters,
         description |-> description, safety_check |-> safety_check]

\* A to_dict that writes the member's name where its value belongs.
to_dict_by_name(c) ==
    [action |-> c.action, parameters |-> c.parameters,
     description |-> c.description, safety_check |-> c.safety_check]

to_dict(c) ==
    [action |-> DroneAction[c.action], parameters |-> c.parameters,
     description |-> c.description, safety_check |-> c.safety_check]

\* from_dict: DroneAction(data["action"]) looks the member up by its value
\* and raises ValueError when there is none; then the constructor runs.
from_dict(data) ==
    IF ~\E a \in DOMAIN DroneAction : DroneAction[a] = data.action
    THEN [raised |-> "ValueError", action |-> "none", parameters |-> data.parameters,
          description |-> data.description, safety_check |-> data.safety_check]
    ELSE DroneCommand(CHOOSE a \in DOMAIN DroneAction : DroneAction[a] = data.action,
                      data.parameters, data.description, data.safety_check)

\* An is_safe_command without the exemption of EMERGENCY.
is_safe_command_strict(command) ==
    IF ~command.safety_check THEN FALSE
    ELSE IF command.action = "MOVE" /\ Get(command.parameters.distance, 0) > Num(300)
    THEN FALSE
    ELSE TRUE

is_safe_command(command) ==
    IF ~command.safety_check /\ command.action # "EMERGENCY" THEN FALSE
    ELSE IF command.action = "MOVE" /\ Get(command.parameters.distance, 0) > Num(300)
    THEN FALSE
    ELSE TRUE

Warning(text, pos) == [text |-> text, pos |-> pos]

\* The first loop of validate_command_sequence, from position i on.
RECURSIVE TakeoffLoop(_, _, _)
TakeoffLoop(cmds, i, has_takeoff) ==
    IF i > Len(cmds) THEN <<>>
    ELSE IF cmds[i].action = "TAKEOFF" THEN TakeoffLoop(cmds, i + 1, TRUE)
    ELSE IF cmds[i].action \in {"MOVE", "ROTATE", "SCAN"} /\ ~has_takeoff
    THEN << Warning("Movement command without takeoff", i) >>
         \o TakeoffLoop(cmds, i + 1, has_takeoff)
    ELSE TakeoffLoop(cmds, i + 1, has_takeoff)

\* A takeoff check whose flag starts set.
check_takeoff_flag_set(cmds) == TakeoffLoop(cmds, 1, TRUE)

\* "Check for takeoff before movement": has_takeoff = False, then the loop.
check_takeoff(cmds) == TakeoffLoop(cmds, 1, FALSE)

RECURSIVE total_distance(_)
total_distance(cmds) ==
    IF cmds = <<>> THEN 0
    ELSE (IF Head(cmds).action = "MOVE" THEN Get(Head(cmds).parameters.distance, 0)
          ELSE 0)
         + total_distance(Tail(cmds))

\* "Check for excessive movements"
check_distance(cmds) ==
    IF total_distance(cmds) > Num(1000)
    THEN << Warning("Total movement distance exceeds safe limit", 0) >>
    ELSE <<>>

\* A landing check that looks at the first command.
check_landing_first(cmds) ==
    IF cmds # <<>> /\ cmds[1].action # "LAND"
    THEN << Warning("Command sequence should end with landing", 0) >>
    ELSE <<>>

\* "Check for landing at end"
check_landing(cmds) ==
    IF cmds # <<>> /\ cmds[Len(cmds)].action # "LAND"
    THEN << Warning("Command sequence should end with landing", 0) >>
    ELSE <<>>

validate_command_sequence(cmds) ==
    check_takeoff(cmds) \o check_distance(cmds) \o check_landing(cmds)

\* The arguments callers hand to the constructor.
Input(action, parameters, description, safety_check) ==
    [action |-> action, parameters |-> parameters, description |-> description,
     safety_check |-> safety_check]

\* What callers pass for each action: a direction and a distance, an angle,
\* a duration, or nothing.
ParameterInputs(action) ==
    CASE action = "MOVE" ->
           { [NoParameters EXCEPT !.direction = d, !.distance = n] :
                 d \in {"none", "forward", "down", "sideways"},
                 n \in { <<>>, <<-1000>>, <<195>>, <<200>>, <<205>>, <<3000>>,
                         <<3005>>, <<5000>>, <<5005>>, <<10000>> } }
      [] action = "ROTATE" ->
           { [NoParameters EXCEPT !.angle = n] :
                 n \in { <<>>, <<-3605>>, <<-3600>>, <<-900>>, <<0>>, <<5>>,
                         <<900>>, <<3600>>, <<3605>>, <<4000>> } }
      [] action = "SCAN" ->
           { [NoParameters EXCEPT !.duration = n] :
                 n \in { <<>>, <<5>>, <<10>>, <<15>>, <<300>>, <<305>> } }
      [] OTHER -> { NoParameters }

CommandInputs ==
    UNION { { Input(a, p, d, sc) : p \in ParameterInputs(a),
                                   d \in {"", "Move forward 2m"},
                                   sc \in BOOLEAN } : a \in DOMAIN DroneAction }

Build(input) ==
    DroneCommand(input.action, input.parameters, input.description,
                 input.safety_check)

NotChecked == [safe |-> "none", restored |-> <<>>]

NotLinted == [done |-> FALSE, warnings |-> <<>>]

\* DroneCommand(...) is called.
Construct(input) ==
    /\ built' = [input |-> input, command |-> Build(input)]
    /\ checked' = NotChecked
    /\ UNCHANGED <<commands, lint>>
    /\ CommandsOnly

\* CommandValidator.is_safe_command(command) on the command just built.
CheckSafe ==
    /\ built.command.raised = "none"
    /\ checked' = [checked EXCEPT
                      !.safe = IF is_safe_command(built.command) THEN "True" ELSE "False"]
    /\ UNCHANGED <<built, commands, lint>>
    /\ CommandsOnly

\* DroneCommand.from_dict(command.to_dict()) on the command just built.
RoundTrip ==
    /\ built.command.raised = "none"
    /\ checked' = [checked EXCEPT !.restored = << from_dict(to_dict(built.command)) >>]
    /\ UNCHANGED <<built, commands, lint>>
    /\ CommandsOnly

\* The commands callers put into a list: one of each action, and a long move.
ListedInputs ==
    { Input(a, NoParameters, "", TRUE) : a \in DOMAIN DroneAction \ {"MOVE"} }
    \cup { Input("MOVE", [NoParameters EXCEPT !.direction = "forward",
                                               !.distance = <<5000>>], "", TRUE) }

\* A command is built and appended to the list.
AddCommand(input) ==
    /\ Len(commands) < MaxCommands
    /\ Build(input).raised = "none"
    /\ commands' = Append(commands, Build(input))
    /\ lint' = NotLinted
    /\ UNCHANGED <<built, checked>>
    /\ CommandsOnly

\* CommandValidator.validate_command_sequence(commands)
ValidateSequence ==
    /\ lint' = [done |-> TRUE, warnings |-> validate_command_sequence(commands)]
    /\ UNCHANGED <<built, checked, commands>>
    /\ CommandsOnly

CommandInit ==
    /\ built = [input |-> Input("TAKEOFF", NoParameters, "", TRUE),
                command |-> Build(Input("TAKEOFF", NoParameters, "", TRUE))]
    /\ checked = NotChecked
    /\ commands = <<>>
    /\ lint = NotLinted

CommandNext ==
    \/ \E input \in CommandInputs : Construct(input)
    \/ CheckSafe
    \/ RoundTrip

LintNext ==
    \/ \E input \in ListedInputs : AddCommand(input)
    \/ ValidateSequence

(***************************************************************************)
(* The drone wrappers: TelloSDK (RestrictedTelloSDK.py), GarageDrone       *)
(* (GarageDrone.py) and SimpleTello (simple_tello.py).  Each call is an    *)
(* input of what the socket or the vendor library does; the value a        *)
(* wrapper returns is its Python type and the characters of its str().     *)
(***************************************************************************)
\* The texts of the values the wrappers return.
Py ==
    [ False   |-> <<"F", "a", "l", "s", "e">>,
      True    |-> <<"T", "r", "u", "e">>,
      None    |-> <<"N", "o", "n", "e">>,
      minus1  |-> <<"-", "1">>,
      ok      |-> <<"o", "k">>,
      timeout |-> <<"t", "i", "m", "e", "o", "u", "t">>,
      error   |-> <<"e", "r", "r", "o", "r", ":", " ", "x">>,
      frame   |-> <<"f", "r", "a", "m", "e">> ]

Ret(type, chars) == [type |-> type, chars |-> chars, raised |-> FALSE]

\* The exception leaves the wrapper.
Propagates == [type |-> "none", chars |-> <<>>, raised |-> TRUE]

\* What recvfrom does: the drone answers a number, answers "ok", does not
\* answer (socket.timeout), or the socket raises another error.
SocketOutcomes == {"number", "ok", "timeout", "raise"}

\* What a call into djitellopy does: it returns its value, returns None, or
\* raises.
VendorOutcomes == {"value", "none", "raise"}

\* The datagram the drone answers with.
Datagram(outcome) == IF outcome = "number" THEN IntToStr(55) ELSE Py.ok

\* TelloSDK.send_command: the response, "timeout", or "error: ...".
sdk_send_command(outcome) ==
    CASE outcome = "timeout" -> Py.timeout
      [] outcome = "raise" -> Py.error
      [] OTHER -> Datagram(outcome)

\* try: return int(response); except: return <fallback>
int_or(response, fallback) ==
    IF response # Py.None /\ IntParses(response)
    THEN Ret("int", IntToStr(IntOf(response)))
    ELSE Ret("int", fallback)

\* TelloSDK.get_battery(), takeoff()
TelloSdkOp(op, outcome) ==
    IF op = "get_battery" THEN int_or(sdk_send_command(outcome), Py.minus1)
    ELSE Ret("str", sdk_send_command(outcome))

\* GarageDrone.receive_response with a socket: the text, "timeout", or None.
receive_response(outcome) ==
    CASE outcome = "timeout" -> Ret("str", Py.timeout)
      [] outcome = "raise" -> Ret("NoneType", Py.None)
      [] OTHER -> Ret("str", Datagram(outcome))

\* GarageDrone.connect(), get_battery(), takeoff(): the object afterwards,
\* whether the socket was used, and the value returned.
GarageOp(op, outcome) ==
    LET resp == IF op = "connect" \/ garage.socket THEN receive_response(outcome)
                ELSE Ret("NoneType", Py.None)
        used == op = "connect" \/ garage.socket
    IN  CASE op = "connect" ->
               [garage |-> [socket |-> TRUE,
                            is_connected |-> garage.is_connected \/ resp.chars = Py.ok],
                used |-> used,
                ret |-> IF resp.chars = Py.ok THEN Ret("bool", Py.True)
                        ELSE Ret("bool", Py.False)]
          [] op = "get_battery" ->
               [garage |-> garage, used |-> used,
                ret |-> int_or(resp.chars, IntToStr(0))]
          [] OTHER -> [garage |-> garage, used |-> used, ret |-> resp]

\* try: if not self.is_connected: return <idle>; <vendor call>; return ...
\* except Exception: return <idle>
Guarded(outcome, idle, done) ==
    IF ~simple.is_connected THEN [simple |-> simple, used |-> FALSE, ret |-> idle]
    ELSE IF outcome = "raise" THEN [simple |-> simple, used |-> TRUE, ret |-> idle]
    ELSE [simple |-> simple, used |-> TRUE, ret |-> done]

\* SimpleTello.connect(), streamon(), takeoff(), get_battery(),
\* get_frame_read(), get_frame()
SimpleOp(op, outcome) ==
    CASE op = "connect" ->
           [simple |-> [simple EXCEPT !.is_connected = outcome # "raise"],
            used |-> TRUE,
            ret |-> Ret("bool", IF outcome = "raise" THEN Py.False ELSE Py.True)]
      [] op = "streamon" ->
           LET g == Guarded(outcome, Ret("bool", Py.False), Ret("bool", Py.True))
           IN  [g EXCEPT !.simple =
                   [simple EXCEPT !.video_enabled = @ \/ g.ret.chars = Py.True]]
      [] op = "takeoff" ->
           Guarded(outcome, Ret("bool", Py.False), Ret("bool", Py.True))
      [] op = "get_battery" ->
           Guarded(outcome, Ret("int", IntToStr(0)),
                   IF outcome = "none" THEN Ret("NoneType", Py.None)
                   ELSE Ret("int", IntToStr(55)))
      [] op = "get_frame_read" ->
           IF ~simple.video_enabled
           THEN [simple |-> simple, used |-> FALSE, ret |-> Ret("NoneType", Py.None)]
           ELSE [simple |-> simple, used |-> TRUE,
                 ret |-> CASE outcome = "raise" -> Propagates
                           [] outcome = "none" -> Ret("NoneType", Py.None)
                           [] OTHER -> Ret("Frame", Py.frame)]
      [] OTHER ->
           IF ~simple.video_enabled
           THEN [simple |-> simple, used |-> FALSE, ret |-> Ret("NoneType", Py.None)]
           ELSE [simple |-> simple, used |-> TRUE,
                 ret |-> IF outcome = "value" THEN Ret("Frame", Py.frame)
                         ELSE Ret("NoneType", Py.None)]

Called(wrapper, op, outcome, used, ret) ==
    [wrapper |-> wrapper, op |-> op, outcome |-> outcome, used |-> used, ret |-> ret]

TelloSdkCall(op, outcome) ==
    /\ lastWrap' = Called("TelloSDK", op, outcome, TRUE, TelloSdkOp(op, outcome))
    /\ UNCHANGED <<garage, simple>>
    /\ WrappersOnly

GarageCall(op, outcome) ==
    LET r == GarageOp(op, outcome)
    IN  /\ garage' = r.garage
        /\ lastWrap' = Called("GarageDrone", op, outcome, r.used, r.ret)
        /\ UNCHANGED simple
        /\ WrappersOnly

SimpleCall(op, outcome) ==
    LET r == SimpleOp(op, outcome)
    IN  /\ simple' = r.simple
        /\ lastWrap' = Called("SimpleTello", op, outcome, r.used, r.ret)
        /\ UNCHANGED garage
        /\ WrappersOnly

WrapperInit ==
    /\ garage = [socket |-> FALSE, is_connected |-> FALSE]
    /\ simple = [is_connected |-> FALSE, video_enabled |-> FALSE]
    /\ lastWrap = Called("none", "none", "none", FALSE, Ret("NoneType", Py.None))

WrapperNext ==
    \/ \E op \in {"get_battery", "takeoff"}, o \in SocketOutcomes : TelloSdkCall(op, o)
    \/ \E op \in {"connect", "get_battery", "takeoff"}, o \in SocketOutcomes :
           GarageCall(op, o)
    \/ \E op \in {"connect", "streamon", "takeoff", "get_battery", "get_frame_read",
                  "get_frame"}, o \in VendorOutcomes : SimpleCall(op, o)

(***************************************************************************)
(* TelloController (src/drone/tello_controller.py): the controller of      *)
(* src/main.py.  It drives a SimpleTello, whose methods answer False       *)
(* without a call on the vendor's object while it is not connected, and    *)
(* False when the vendor's call raises.                                    *)
(***************************************************************************)
\* The battery levels of the drone, in percent.
BatteryLevels == {15, 25}

\* What the vendor's object does in one operation: connect() succeeds or
\* raises, a command or reading succeeds or raises, and the step of a scan
\* that fails (0: none).
TelloAnswers == [up : BOOLEAN, ok : BOOLEAN, failAt : {0, 1, 8}]

\* TelloController.__init__
InitialTelloController ==
    [tello |-> "none", video_enabled |-> FALSE, is_connected |-> FALSE,
     is_flying |-> FALSE, battery_level |-> 0]

TcOutcome(state, calls, ret) == [state |-> state, calls |-> calls, ret |-> ret]

\* One method of SimpleTello: the guard on its is_connected, then the
\* vendor's call inside try/except.
SimpleTelloCall(state, method, ok) ==
    IF state.tello = "connected" THEN [calls |-> <<method>>, success |-> ok]
    ELSE [calls |-> <<>>, success |-> FALSE]

\* connect(): a new SimpleTello, its connect(), the battery reading and, as
\* enable_video is set, start_video_stream's streamon.
tc_connect(state, hw) ==
    IF ~hw.up
    THEN TcOutcome([state EXCEPT !.tello = "unconnected", !.video_enabled = FALSE],
                   <<"connect">>, "False")
    ELSE LET battery == IF hw.ok THEN droneBattery ELSE 0
         IN  IF battery > 0
             THEN TcOutcome([state EXCEPT !.tello = "connected",
                                          !.video_enabled = TRUE,
                                          !.is_connected = TRUE,
                                          !.battery_level = battery],
                            <<"connect", "get_battery", "streamon">>, "True")
             ELSE TcOutcome([state EXCEPT !.tello = "connected",
                                          !.video_enabled = FALSE],
                            <<"connect", "get_battery">>, "False")

\* A takeoff that does not look at is_flying.
tc_takeoff_unchecked(state, hw) ==
    IF state.battery_level < 20 THEN TcOutcome(state, <<>>, "False")
    ELSE LET c == SimpleTelloCall(state, "takeoff", hw.ok)
         IN  TcOutcome([state EXCEPT !.is_flying = c.success], c.calls,
                       IF c.success THEN "True" ELSE "False")

tc_takeoff(state, hw) ==
    IF state.is_flying THEN TcOutcome(state, <<>>, "True")
    ELSE IF state.battery_level < 20 THEN TcOutcome(state, <<>>, "False")
    ELSE LET c == SimpleTelloCall(state, "takeoff", hw.ok)
         IN  TcOutcome([state EXCEPT !.is_flying = c.success], c.calls,
                       IF c.success THEN "True" ELSE "False")

tc_land(state, hw) ==
    IF ~state.is_flying THEN TcOutcome(state, <<>>, "True")
    ELSE LET c == SimpleTelloCall(state, "land", hw.ok)
         IN  TcOutcome([state EXCEPT !.is_flying = ~c.success], c.calls,
                       IF c.success THEN "True" ELSE "False")

\* The method of SimpleTello _move calls for each direction.
MoveMethod ==
    [ forward |-> "move_forward", back |-> "move_back", left |-> "move_left",
      right |-> "move_right", up |-> "move_up", down |-> "move_down" ]

\* A _move that does not look at is_flying.
tc_move_unchecked(state, parameters, hw) ==
    IF parameters.direction \notin DOMAIN MoveMethod
    THEN TcOutcome(state, <<>>, "False")
    ELSE LET c == SimpleTelloCall(state, MoveMethod[parameters.direction], hw.ok)
         IN  TcOutcome(state, c.calls, IF c.success THEN "True" ELSE "False")

\* _move: parameters["direction"] and parameters["distance"] raise KeyError
\* when the key is missing, which the except turns into False.
tc_move(state, parameters, hw) ==
    IF parameters.direction = "none" \/ parameters.distance = <<>>
    THEN TcOutcome(state, <<>>, "False")
    ELSE IF ~state.is_flying THEN TcOutcome(state, <<>>, "False")
    ELSE IF parameters.direction \notin DOMAIN MoveMethod
    THEN TcOutcome(state, <<>>, "False")
    ELSE LET c == SimpleTelloCall(state, MoveMethod[parameters.direction], hw.ok)
         IN  TcOutcome(state, c.calls, IF c.success THEN "True" ELSE "False")

tc_rotate(state, parameters, hw) ==
    IF parameters.angle = <<>> THEN TcOutcome(state, <<>>, "False")
    ELSE IF ~state.is_flying THEN TcOutcome(state, <<>>, "False")
    ELSE LET c == SimpleTelloCall(state,
                      IF parameters.angle[1] > 0 THEN "rotate_clockwise"
                      ELSE "rotate_counter_clockwise", hw.ok)
         IN  TcOutcome(state, c.calls, IF c.success THEN "True" ELSE "False")

\* _hover only sleeps.
tc_hover(state) ==
    TcOutcome(state, <<>>, IF state.is_flying THEN "True" ELSE "False")

\* _scan: steps rotations of 45 degrees, given up at the first that fails.
steps == 8

tc_scan(state, hw) ==
    IF ~state.is_flying THEN TcOutcome(state, <<>>, "False")
    ELSE IF state.tello # "connected" THEN TcOutcome(state, <<>>, "False")
    ELSE IF hw.failAt = 0
    THEN TcOutcome(state, [i \in 1..steps |-> "rotate_clockwise"], "True")
    ELSE TcOutcome(state, [i \in 1..hw.failAt |-> "rotate_clockwise"], "False")

\* _emergency, and what emergency_land does while flying.
tc_emergency(state, hw) ==
    LET c == SimpleTelloCall(state, "emergency", hw.ok)
    IN  TcOutcome([state EXCEPT !.is_flying = IF c.success THEN FALSE ELSE @],
                  c.calls, IF c.success THEN "True" ELSE "False")

\* execute_command(command)
tc_execute_command(state, command, hw) ==
    IF ~state.is_connected THEN TcOutcome(state, <<>>, "False")
    ELSE IF ~is_safe_command(command) THEN TcOutcome(state, <<>>, "False")
    ELSE CASE command.action = "TAKEOFF" -> tc_takeoff(state, hw)
           [] command.action = "LAND" -> tc_land(state, hw)
           [] command.action = "MOVE" -> tc_move(state, command.parameters, hw)
           [] command.action = "ROTATE" -> tc_rotate(state, command.parameters, hw)
           [] command.action = "HOVER" -> tc_hover(state)
           [] command.action = "SCAN" -> tc_scan(state, hw)
           [] command.action = "EMERGENCY" -> tc_emergency(state, hw)

\* emergency_land()
tc_emergency_land(state, hw) ==
    IF state.is_flying
    THEN [tc_emergency(state, hw) EXCEPT !.ret = "None"]
    ELSE TcOutcome(state, <<>>, "None")

\* disconnect(): stop_video_stream's streamoff, the emergency landing while
\* flying, then SimpleTello.close(), which tries streamoff again when the
\* first did not go through and ends the vendor's connection.
tc_disconnect(state, hw) ==
    LET off == IF state.video_enabled THEN <<"streamoff">> ELSE <<>>
        again == IF state.video_enabled /\ ~hw.ok THEN <<"streamoff">> ELSE <<>>
        e == tc_emergency_land(state, hw)
        end == IF state.tello = "connected" THEN <<"end">> ELSE <<>>
    IN  TcOutcome([e.state EXCEPT !.is_connected = FALSE,
                                  !.video_enabled = @ /\ ~hw.ok,
                                  !.tello = IF @ = "none" THEN @ ELSE "unconnected"],
                  off \o e.calls \o again \o end, "None")

\* The commands src/main.py hands to execute_command.
TelloCommands ==
    { Build(Input(a, NoParameters, "", sc)) :
          a \in {"TAKEOFF", "LAND", "HOVER", "EMERGENCY"}, sc \in BOOLEAN }
    \cup { Build(Input("MOVE", [NoParameters EXCEPT !.direction = "forward",
                                                   !.distance = <<n>>], "", TRUE)) :
               n \in {1000, 4000} }
    \cup { Build(Input("ROTATE", [NoParameters EXCEPT !.angle = <<n>>], "", TRUE)) :
               n \in {-900, 900} }
    \cup { Build(Input("SCAN", NoParameters, "", TRUE)) }

\* An operation of the controller acts.
TcActs(op, r) ==
    /\ controller = "TelloController"
    /\ tc' = r.state
    /\ lastTc' = [op |-> op, ret |-> r.ret, calls |-> r.calls]
    /\ UNCHANGED <<controller, droneBattery>>

TcConnect == \E hw \in TelloAnswers : TcActs("connect", tc_connect(tc, hw)) /\ TelloOnly

TcExecuteCommand ==
    \E command \in TelloCommands, hw \in TelloAnswers :
        TcActs(command.action, tc_execute_command(tc, command, hw)) /\ TelloOnly

TcEmergencyLand ==
    \E hw \in TelloAnswers :
        TcActs("emergency_land", tc_emergency_land(tc, hw)) /\ TelloOnly

TcDisconnect ==
    \E hw \in TelloAnswers : TcActs("disconnect", tc_disconnect(tc, hw)) /\ TelloOnly

\* The drone's battery runs down.
BatteryDrains ==
    /\ controller = "TelloController"
    /\ \E b \in BatteryLevels : b < droneBattery /\ droneBattery' = b
    /\ UNCHANGED <<controller, tc, lastTc>>
    /\ TelloOnly

\* The process builds one of the two controllers; the drone starts at its
\* highest battery level.
TelloInit ==
    /\ controller \in {"DroneController", "TelloController"}
    /\ tc = InitialTelloController
    /\ droneBattery = CHOOSE b \in BatteryLevels : \A c \in BatteryLevels : c <= b
    /\ lastTc = [op |-> "none", ret |-> "none", calls |-> <<>>]

TelloNext ==
    \/ TcConnect
    \/ TcExecuteCommand
    \/ TcEmergencyLand
    \/ TcDisconnect
    \/ BatteryDrains

\* The operations of DroneController and of TelloController.
ControllerNext ==
    \/ Takeoff
    \/ Land
    \/ MoveTracked
    \/ MovePlain
    \/ MoveUp
    \/ MoveDown
    \/ Rotate
    \/ GetDroneStatus
    \/ ControllerEmergencyStop
    \/ TelloNext

(***************************************************************************)
(* The web agent's video streaming (web_drone_agent.py): the Socket.IO     *)
(* handlers connect, disconnect and video_toggle, and the threads that     *)
(* _video_stream_worker starts.  A thread tests the three conditions of    *)
(* its while loop, streams a frame, sleeps, and tests them again.          *)
(***************************************************************************)
MaxClients == 2

MaxWorkers == 3

\* The threads that have been started and have not left their loop.
Alive == { w \in DOMAIN workers : workers[w] \in {"check", "sleep"} }

\* connect(sid, environ)
ClientConnect ==
    /\ web_clients < MaxClients
    /\ web_clients' = web_clients + 1
    /\ UNCHANGED <<video_streaming, video_streaming_enabled, workers>>
    /\ VideoOnly

\* disconnect(sid)
ClientDisconnect ==
    /\ web_clients > 0
    /\ web_clients' = web_clients - 1
    /\ video_streaming' = IF web_clients' = 0 THEN FALSE ELSE video_streaming
    /\ UNCHANGED <<video_streaming_enabled, workers>>
    /\ VideoOnly

\* video_toggle(sid, data) with data["enabled"] = enabled
VideoToggle(enabled) ==
    /\ web_clients > 0
    /\ video_streaming_enabled' = enabled
    /\ IF enabled /\ ~video_streaming /\ web_clients > 0
       THEN /\ Len(workers) < MaxWorkers
            /\ video_streaming' = TRUE
            /\ workers' = Append(workers, "task")
       ELSE IF ~enabled /\ video_streaming
       THEN video_streaming' = FALSE /\ UNCHANGED workers
       ELSE UNCHANGED <<video_streaming, workers>>
    /\ UNCHANGED web_clients
    /\ VideoOnly

\* The task created by video_toggle runs _video_stream_worker, which starts
\* the thread.
WorkerStart(w) ==
    /\ workers[w] = "task"
    /\ workers' = [workers EXCEPT ![w] = "check"]
    /\ UNCHANGED <<web_clients, video_streaming, video_streaming_enabled>>
    /\ VideoOnly

\* The head of the thread's while loop.
WorkerCheck(w) ==
    /\ workers[w] = "check"
    /\ workers' = [workers EXCEPT ![w] =
                      IF video_streaming /\ video_streaming_enabled /\ web_clients > 0
                      THEN "sleep" ELSE "exited"]
    /\ UNCHANGED <<web_clients, video_streaming, video_streaming_enabled>>
    /\ VideoOnly

\* The frame has been handed over and the sleep of the iteration is over.
WorkerWakes(w) ==
    /\ workers[w] = "sleep"
    /\ workers' = [workers EXCEPT ![w] = "check"]
    /\ UNCHANGED <<web_clients, video_streaming, video_streaming_enabled>>
    /\ VideoOnly

VideoInit ==
    /\ web_clients = 0
    /\ video_streaming = FALSE
    /\ video_streaming_enabled = FALSE
    /\ workers = <<>>

VideoNext ==
    \/ ClientConnect
    \/ ClientDisconnect
    \/ \E enabled \in BOOLEAN : VideoToggle(enabled)
    \/ \E w \in DOMAIN workers : WorkerStart(w)
    \/ \E w \in DOMAIN workers : WorkerCheck(w)
    \/ \E w \in DOMAIN workers : WorkerWakes(w)

(***************************************************************************)
(* The specifications: one per component, from the state after             *)
(* construction.                                                           *)
(***************************************************************************)
RelayInit ==
    /\ relayKind \in {"web", "autonomous"}
    /\ relayWire = <<>>
    /\ relayCalls = 0
    /\ lastRelay = [call_id |-> 0, name |-> "none", args |-> "none",
                     dispatched |-> FALSE, result |-> "none"]

Init ==
    /\ SdkInit /\ SpeechInit /\ AgentInit /\ MissionInit /\ RelayInit
    /\ CommandInit /\ WrapperInit /\ TelloInit /\ VideoInit

\* A specification of one component starts the others as built for a web
\* agent (InitWeb), the SDK and the speech processor also vision-only.
InitWeb == Init /\ relayKind = "web" /\ controller = "DroneController"

\* Either agent, with a DroneController.
InitRelay == Init /\ controller = "DroneController"

\* Either controller, in a web agent.
InitControllers == Init /\ relayKind = "web"

InitFixed == InitWeb /\ vision_only

SpecSdk == InitFixed /\ [][SdkNext]_vars

SpecSpeech == InitFixed /\ [][SpeechNext]_vars

\* The speech bridge with its scheduling: the message loop handles every
\* message it has received, and the server answers every generation request.
SpecSpeechFair ==
    /\ InitFixed
    /\ [][SpeechNext]_vars
    /\ WF_vars(HandleTranscription)
    /\ WF_vars(HandleResponseCreated)
    /\ WF_vars(HandleResponseDone)
    /\ WF_vars(ServerCreated)
    /\ WF_vars(ServerDone)

SpecAgent == InitWeb /\ [][AgentNext]_vars

SpecControllers == InitControllers /\ [][ControllerNext]_vars

SpecMission == InitWeb /\ [][MissionNext]_vars

SpecRelay == InitRelay /\ [][RelayNext]_vars

SpecCommand == InitFixed /\ [][CommandNext]_vars

SpecLint == InitFixed /\ [][LintNext]_vars

SpecWrappers == InitFixed /\ [][WrapperNext]_vars

SpecVideo == InitFixed /\ [][VideoNext]_vars

(***************************************************************************)
(* Claims about the speech bridge.                                         *)
(***************************************************************************)
\* C1: at most one generation request is outstanding at any time: no
\* response.create is sent while an earlier one is not yet answered by
\* response.done.
C1_OneOutstanding == Outstanding <= 1

\* C2: generation requests go out in the order of the speak_text calls: the
\* text of an earlier call is sent before the text of a later one.
C2_Fifo ==
    \A i, j \in DOMAIN SentTexts : i < j => SentTexts[i].text < SentTexts[j].text

VerbAllowed(command) ==
    \E i \in DOMAIN restrictions.allowed_commands :
        restrictions.allowed_commands[i] = Verb(command)

\* The last call handed a command text to send_command.
Commanded == lastCall.command # <<>>

\* C4 A command whose verb is not in allowed_commands is never transmitted:
\* send_command returns "error: command not allowed" and no datagram goes out.
C4_NotAllowedNeverSent ==
    (Commanded /\ ~VerbAllowed(lastCall.command))
        => /\ ~lastCall.sent
           /\ lastCall.result = "error: command not allowed"

C4_Witness ==
    /\ lastCall.op = "send_command"
    /\ lastCall.command = W_emergency
    /\ ~lastCall.sent
    /\ lastCall.result = "error: command not allowed"

\* C5 The allow-list is applied to the verb: a command whose first token is
\* in allowed_commands, such as "forward 50", "cw 90" or "speed 50", is not
\* rejected with "error: command not allowed".
C5_VerbPasses ==
    (Commanded /\ VerbAllowed(lastCall.command))
        => lastCall.result # "error: command not allowed"

RECURSIVE SumSeq(_)
SumSeq(q) == IF q = <<>> THEN 0 ELSE Head(q) + SumSeq(Tail(q))

\* C6 as stated: within any interval of one second at most
\* command_limit_per_second (10) commands are forwarded to the drone.
C6_PerSecond == SumSeq(recentSent) <= DefaultRestrictions.command_limit_per_second

\* C6 The rate limit holds per counting window: between two resets of the
\* counter at most command_limit_per_second (10) commands pass the rate check
\* and are forwarded; a further allow-listed command of that window returns
\* "error: command rate limit exceeded" and is not sent.
C6_PerWindow ==
    /\ sentInWindow <= command_count
    /\ command_count <= DefaultRestrictions.command_limit_per_second
    /\ lastCall.sent => command_count <= restrictions.command_limit_per_second
    /\ lastCall.result = "error: command rate limit exceeded"
          => /\ ~lastCall.sent
             /\ command_count >= restrictions.command_limit_per_second

C6_Witness ==
    /\ lastCall.result = "error: command rate limit exceeded"
    /\ ~lastCall.sent
    /\ sentInWindow = DefaultRestrictions.command_limit_per_second

\* The number a command text carries after its verb exceeds the limit that
\* applies to the verb: "speed", "distance", or "none".
OverLimit(command) ==
    LET toks == Split(command)
    IN  IF Len(toks) < 2 \/ ~IntParses(toks[2]) THEN "none"
        ELSE IF Verb(command) = W_speed /\ IntOf(toks[2]) > restrictions.max_speed
        THEN "speed"
        ELSE IF /\ Verb(command) \in {W_forward, W_back, W_left, W_right, W_up, W_down}
                /\ IntOf(toks[2]) > restrictions.max_distance
        THEN "distance"
        ELSE "none"

\* C7 A "speed N" command with N above max_speed, and a forward, back, left,
\* right, up or down command with N above max_distance, is never transmitted
\* and returns the matching "error: ... exceeds maximum limit" string.
C7_RangeChecked ==
    /\ (Commanded /\ OverLimit(lastCall.command) = "speed")
          => /\ ~lastCall.sent
             /\ lastCall.result = "error: speed exceeds maximum limit"
    /\ (Commanded /\ OverLimit(lastCall.command) = "distance")
          => /\ ~lastCall.sent
             /\ lastCall.result = "error: distance exceeds maximum limit"

(***************************************************************************)
(* The command center's missions.                                          *)
(***************************************************************************)
\* C8 Cancellation is final: once pause_mission or emergency_stop has set
\* mission_active to False, the loop that was running begins no further
\* iteration; at its next check it leaves the loop.
C8_CancelFinal ==
    [][ \A m \in DOMAIN missions :
            (missions[m].cancelled /\ missions[m].pc = "check"
                /\ missions'[m].pc # "check")
            => missions'[m].pc = "finish" ]_vars

(***************************************************************************)
(* Vision-only mode.                                                       *)
(***************************************************************************)
\* C9 In vision-only mode no takeoff, land, movement, rotation, status,
\* emergency-stop or image-capture operation calls a method of the hardware
\* drone handle.
C9_VisionOnlyNoHardware == vision_only => hwCalls = <<>>

C9_Witness ==
    /\ vision_only
    /\ lastOp = [name |-> "takeoff", ret |-> "ok"]
    /\ drone_state.is_flying
    /\ hwCalls = <<>>

(***************************************************************************)
(* The realtime relay.                                                     *)
(***************************************************************************)
\* C10 Every function-call request is answered: for each
\* response.function_call_arguments.done event exactly one
\* function_call_output item with the same call_id is sent, also when the
\* name is unknown, the arguments are malformed or the function fails.
C10_ExactlyOneOutput ==
    \A id \in 1..relayCalls : Sent("function_call_output", id) = 1

(***************************************************************************)
(* DroneCommand and CommandValidator.                                      *)
(***************************************************************************)
\* The latest constructor call was for a MOVE with a valid direction and a
\* distance; for a ROTATE with an angle.
MoveBuilt ==
    /\ built.input.action = "MOVE"
    /\ built.input.parameters.direction \in valid_directions
    /\ built.input.parameters.distance # <<>>

RotateBuilt ==
    /\ built.input.action = "ROTATE"
    /\ built.input.parameters.angle # <<>>

Between(lo, t, hi) == Num(lo) <= t /\ t <= Num(hi)

\* C11 A MOVE command with a valid direction is constructed if and only if
\* 20 <= distance <= 500; any other distance raises ValueError.
C11_MoveRange ==
    MoveBuilt =>
        IF Between(20, built.input.parameters.distance[1], 500)
        THEN built.command.raised = "none"
        ELSE built.command.raised = "ValueError"

C11_Witness ==
    /\ MoveBuilt
    /\ built.input.parameters.distance = <<5005>>
    /\ built.command.raised = "ValueError"

\* C12 A ROTATE command is constructed if and only if 1 <= angle <= 360; any
\* other angle (0, a negative angle, an angle above 360) raises ValueError.
C12_RotateRange ==
    RotateBuilt =>
        IF Between(1, built.input.parameters.angle[1], 360)
        THEN built.command.raised = "none"
        ELSE built.command.raised = "ValueError"

\* The list has been validated and not changed since.
Linted == lint.done

Flagged(i) ==
    \E k \in DOMAIN lint.warnings :
        lint.warnings[k] = Warning("Movement command without takeoff", i)

\* C13 validate_command_sequence returns a "Movement command without takeoff"
\* warning for position i if and only if the command at i is MOVE, ROTATE or
\* SCAN and no TAKEOFF occurs at an earlier position.
C13_MovementBeforeTakeoff ==
    Linted =>
        \A i \in DOMAIN commands :
            Flagged(i) <=>
                /\ commands[i].action \in {"MOVE", "ROTATE", "SCAN"}
                /\ ~\E j \in 1..(i - 1) : commands[j].action = "TAKEOFF"

C13_Witness ==
    /\ Linted
    /\ Len(commands) = 3
    /\ commands[1].action = "ROTATE"
    /\ commands[2].action = "TAKEOFF"
    /\ commands[3].action = "MOVE"
    /\ Flagged(1)
    /\ ~Flagged(3)

EndsWarned ==
    \E k \in DOMAIN lint.warnings :
        lint.warnings[k].text = "Command sequence should end with landing"

\* C14 For a non-empty list, validate_command_sequence returns "Command
\* sequence should end with landing" if and only if the last command's action
\* is not LAND.
C14_EndsWithLand ==
    (Linted /\ commands # <<>>) =>
        (EndsWarned <=> commands[Len(commands)].action # "LAND")

C14_Witness ==
    /\ Linted
    /\ Len(commands) = 2
    /\ commands[1].action = "LAND"
    /\ commands[2].action = "HOVER"
    /\ EndsWarned

\* C15 DroneCommand(DroneAction.MOVE, safety_check=False) with no parameters
\* completes without raising.
C15_MoveWithoutParameters ==
    (built.input.action = "MOVE" /\ built.input.parameters = NoParameters
        /\ ~built.input.safety_check)
    => built.command.raised = "none"

\* C16 is_safe_command returns False for a command whose safety_check is False
\* and whose action is not EMERGENCY, and True for an EMERGENCY command
\* whatever its safety_check.
C16_SafeCommand ==
    checked.safe # "none" =>
        /\ (~built.command.safety_check /\ built.command.action # "EMERGENCY")
              => checked.safe = "False"
        /\ built.command.action = "EMERGENCY" => checked.safe = "True"

C16_Witness ==
    /\ built.command.action = "EMERGENCY"
    /\ ~built.command.safety_check
    /\ checked.safe = "True"

\* C17 For every valid command c, from_dict(c.to_dict()) succeeds and yields a
\* command with the same action, parameters, description and safety_check.
C17_RoundTrip ==
    checked.restored # <<>> =>
        LET c == built.command
            r == checked.restored[1]
        IN  /\ r.raised = "none"
            /\ r.action = c.action
            /\ r.parameters = c.parameters
            /\ r.description = c.description
            /\ r.safety_check = c.safety_check

C17_Witness ==
    /\ checked.restored # <<>>
    /\ built.input.action = "MOVE"
    /\ built.input.parameters.distance = <<205>>
    /\ built.input.description = "Move forward 2m"
    /\ checked.restored[1].parameters.distance = <<200>>
    /\ checked.restored[1].raised = "none"

(***************************************************************************)
(* The drone wrappers.                                                     *)
(***************************************************************************)
\* The socket or vendor call of the latest wrapper call failed: it raised,
\* timed out, or answered get_battery with a text that is no number.
VendorFailed ==
    /\ lastWrap.used
    /\ \/ lastWrap.outcome \in {"timeout", "raise"}
       \/ lastWrap.op = "get_battery" /\ lastWrap.outcome = "ok"

\* False, -1 or an error string.
ErrorValue(ret) ==
    \/ ret.type = "bool" /\ ret.chars = Py.False
    \/ ret.type = "int" /\ ret.chars = Py.minus1
    \/ ret.type = "str" /\ (ret.chars = Py.timeout \/ StartsWith(ret.chars, Py.error))

\* C18 When a vendor SDK or socket call fails, the wrapping operation does not
\* raise to its caller and returns False, -1 or an error string.
C18_UniformErrors ==
    VendorFailed => (~lastWrap.ret.raised /\ ErrorValue(lastWrap.ret))

(***************************************************************************)
(* The drone controller and the vision analyzer.                           *)
(***************************************************************************)
\* C19 There is no retry: while handling one request each vendor SDK call is
\* attempted at most once, also when the attempt fails or returns nothing.
C19_NoRetry ==
    \A i, j \in DOMAIN hwCalls : hwCalls[i] = hwCalls[j] => i = j

\* C20 In every reachable state DroneState.height is non-negative and
\* DroneState.battery is between 0 and 100.
C20_StateInRange ==
    /\ drone_state.height >= 0
    /\ drone_state.battery >= 0
    /\ drone_state.battery <= 100

(***************************************************************************)
(* SpeechProcessor: no queued speech request is starved.                   *)
(***************************************************************************)
\* The text has been sent for generation.
SentFor(text) == \E i \in DOMAIN SentTexts : SentTexts[i].text = text

\* The text has been passed to speak_text: its transcription was handled.
Passed(text) ==
    /\ text <= spoken
    /\ \A i \in DOMAIN events : events[i].text # text

\* C21: provided the connection stays open, every text passed to speak_text
\* is eventually sent for generation, and pending_speech_queue becomes
\* empty again whenever it holds a text.
C21_NoStarvation ==
    ([]is_connected) =>
        /\ \A text \in 1..MaxTexts : [](Passed(text) => <>SentFor(text))
        /\ [](pending_speech_queue # <<>> => <>(pending_speech_queue = <<>>))

\* Every text was spoken, the last response.done sent a queued one, and
\* nothing is left waiting.
C21_Witness ==
    /\ is_connected
    /\ spoken = MaxTexts
    /\ \A text \in 1..MaxTexts : SentFor(text)
    /\ lastHandled.type = "response.done"
    /\ lastHandled.dequeued = MaxTexts
    /\ pending_speech_queue = <<>>

(***************************************************************************)
(* DroneController and TelloController: the is_flying flag.                *)
(***************************************************************************)
\* A move, rotate, curve or go-to operation of DroneController.
ControllerMoves == MoveTracked \/ MovePlain \/ MoveUp \/ MoveDown \/ Rotate

\* execute_command hands the command to _move or _rotate.
TelloMoves == TcExecuteCommand /\ lastTc'.op \in {"MOVE", "ROTATE"}

\* C22: on the ground every move, rotate, curve and go-to operation of
\* DroneController, and _move and _rotate of TelloController, returns its
\* refusal without a call on the drone and leaves the flight state as it is.
C22_RefusedOnGround ==
    [][ /\ (~drone_state.is_flying /\ ControllerMoves)
            => /\ lastOp'.ret = "not flying"
               /\ hwCalls' = <<>>
               /\ drone_state' = drone_state
        /\ (~tc.is_flying /\ TelloMoves)
            => /\ lastTc'.ret = "False"
               /\ lastTc'.calls = <<>>
               /\ tc' = tc ]_vars

\* A connected TelloController with enough battery has refused a rotation on
\* the ground.
C22_Witness ==
    /\ controller = "TelloController"
    /\ tc.is_connected
    /\ tc.tello = "connected"
    /\ tc.battery_level >= 20
    /\ ~tc.is_flying
    /\ lastTc = [op |-> "ROTATE", ret |-> "False", calls |-> <<>>]

\* A takeoff while flying and a land on the ground call nothing and change
\* nothing, in either controller.
RepeatsAreIdle ==
    /\ ((drone_state.is_flying /\ Takeoff) \/ (~drone_state.is_flying /\ Land))
        => hwCalls' = <<>> /\ drone_state' = drone_state
    /\ (TcExecuteCommand /\ \/ tc.is_flying /\ lastTc'.op = "TAKEOFF"
                            \/ ~tc.is_flying /\ lastTc'.op = "LAND")
        => lastTc'.calls = <<>> /\ tc' = tc

\* is_flying of DroneController changes by a takeoff or a land that succeeds.
ControllerFlagChanges ==
    drone_state'.is_flying # drone_state.is_flying
        => /\ lastOp'.ret = "ok"
           /\ lastOp'.name = IF drone_state'.is_flying THEN "takeoff" ELSE "land"

\* C23: is_flying changes from False to True by a takeoff that succeeds and
\* from True to False by a land that succeeds, and in no other way; a
\* takeoff while flying and a land on the ground call nothing and change
\* nothing.
C23_TwoWays ==
    [][ /\ ControllerFlagChanges
        /\ tc'.is_flying # tc.is_flying
            => /\ lastTc'.ret = "True"
               /\ lastTc'.op = IF tc'.is_flying THEN "TAKEOFF" ELSE "LAND"
        /\ RepeatsAreIdle ]_vars

\* The emergency call of the operation went through.
EmergencyDone ==
    \/ lastTc'.op = "EMERGENCY" /\ lastTc'.ret = "True"
    \/ /\ lastTc'.op \in {"emergency_land", "disconnect"}
       /\ \E i \in DOMAIN lastTc'.calls : lastTc'.calls[i] = "emergency"

\* C23, amended: as C23_TwoWays, and in TelloController is_flying also
\* changes from True to False by an emergency that succeeds.
C23_ThreeWays ==
    [][ /\ ControllerFlagChanges
        /\ tc'.is_flying # tc.is_flying
            => IF tc'.is_flying
               THEN lastTc'.op = "TAKEOFF" /\ lastTc'.ret = "True"
               ELSE (lastTc'.op = "LAND" /\ lastTc'.ret = "True") \/ EmergencyDone
        /\ RepeatsAreIdle ]_vars

\* A TelloController in flight was told to take off again and did nothing.
C23_Witness ==
    /\ controller = "TelloController"
    /\ tc.is_flying
    /\ tc.is_connected
    /\ tc.tello = "connected"
    /\ lastTc = [op |-> "TAKEOFF", ret |-> "True", calls |-> <<>>]

\* C24: TelloController sends no takeoff to the drone while the drone's
\* battery level is below 20 percent.
C24_NoTakeoffOnLowBattery ==
    [][ (TcExecuteCommand /\ lastTc'.op = "TAKEOFF" /\ lastTc'.calls = <<"takeoff">>)
            => droneBattery >= 20 ]_vars

(***************************************************************************)
(* The realtime relay: who asks for the next response.                     *)
(***************************************************************************)
\* The senders of the response.create messages of one call.
Requesters(call_id) ==
    { relayWire[i].from : i \in { j \in DOMAIN relayWire :
          relayWire[j].type = "response.create" /\ relayWire[j].call_id = call_id } }

InLoop ==
    { m \in DOMAIN missions :
          missions[m].pc \in {"check", "first", "mid", "second", "iterend"} }

\* C26: at most one mission executes at a time: there is never more than
\* one mission task issuing drone commands.
C26_OneMission == Cardinality(InLoop) <= 1

(***************************************************************************)
(* The web agent's video streaming.                                        *)
(***************************************************************************)
\* C27: at most one video streaming worker thread is alive at any time.
C27_OneWorker == Cardinality(Alive) <= 1

(***************************************************************************)
(* RestrictedTelloSDK: connect and emergency_stop.                         *)
(***************************************************************************)
\* C28: when the drone answers "ok" to the handshake, connect() transmits
\* "command", sets is_connected and returns True.
C28_ConnectSucceeds ==
    [][ Connect("ok") => /\ lastCall'.sent
                         /\ lastCall'.command = W_command
                         /\ tello_is_connected'
                         /\ lastCall'.ret = "True" ]_vars

\* C29: emergency_stop transmits "emergency" exactly when
\* emergency_stop_allowed is True; with the flag False it returns
\* "error: emergency stop not allowed" and sends nothing.
C29_EmergencyIffAllowed ==
    [][ (\E reply \in Replies : EmergencyStop(reply))
            => /\ lastCall'.sent <=> restrictions.emergency_stop_allowed
               /\ ~restrictions.emergency_stop_allowed
                      => lastCall'.ret = "error: emergency stop not allowed" ]_vars

=============================================================================
